---- MODULE Spec2Model ----
\* Model of the manual serde deserializer of `Builtin` (src/src/lib.rs).
\*
\* An input document is the token tree a self-describing format (JSON) hands to
\* the visitors: a top-level map is a sequence of <<key, value>> pairs in input
\* order (duplicates and unknown keys allowed), a value is a tagged record
\*   [kind |-> "str" | "num" | "seq" | "map", v |-> payload].
\* BuiltinVisitor::visit_map is modelled one loop iteration per action; the
\* decoders it calls through map.next_value() are operators.
EXTENDS Integers, Sequences, FiniteSets, TLC

\* doc      the input map, a sequence of <<key, value>> pairs
\* origin   history: the entries a round-trip document was written from
\* pos      the pair map.next_key() yields next
\* name, pricing, at   the three Option slots of visit_map
\* writes   history: how often each slot has been assigned
\* pc       "loop" while visit_map runs, "done" once it has returned
\* result   the value visit_map returned
VARIABLES doc, origin, pos, name, pricing, at, writes, pc, result

vars == <<doc, origin, pos, name, pricing, at, writes, pc, result>>

-----------------------------------------------------------------------------
\* Bounds of the model.

\* Longest top-level map of the general document family.
MaxPairs == 4
\* Longest pricing sequence of the round-trip family.
MaxElems == 2
\* Numbers of the round-trip family are 0..MaxNum.
MaxNum == 1
\* Longest element map of the element family.
MaxElemPairs == 3

-----------------------------------------------------------------------------
\* Document values.

Str(s) == [kind |-> "str", v |-> s]
Num(n) == [kind |-> "num", v |-> n]
SeqV(s) == [kind |-> "seq", v |-> s]
MapV(m) == [kind |-> "map", v |-> m]

\* Option<T>: None is the empty sequence, Some(x) the one-element sequence.
None == <<>>
Some(x) == <<x>>
IsSome(o) == o # <<>>
Unwrap(o) == o[1]

\* Result<T, E>.
Ok(x) == [tag |-> "Ok", value |-> x]
IsOk(r) == r.tag = "Ok"
IsErr(r) == r.tag = "Err"

\* de::Error constructors. Every error has the same record shape.
Err(kind, field, expected, found) ==
    [tag |-> "Err", kind |-> kind, field |-> field, expected |-> expected,
     found |-> found]
unknown_field(value, fields) == Err("UnknownField", value, fields, "")
duplicate_field(field) == Err("DuplicateField", field, <<>>, "")
missing_field(field) == Err("MissingField", field, <<>>, "")
invalid_type(found, expected) == Err("ShapeMismatch", "", <<expected>>, found)

\* const FIELDS
FIELDS == <<"name", "pricing", "at">>

\* FieldVisitor::visit_str: the key resolves to a Field or is unknown.
visit_str(value) ==
    IF value = "name" THEN Ok("Name")
    ELSE IF value = "pricing" THEN Ok("Pricing")
    ELSE IF value = "at" THEN Ok("At")
    ELSE unknown_field(value, FIELDS)

-----------------------------------------------------------------------------
\* The decoders behind map.next_value(), chosen by the type of the slot.

\* name: String. A text scalar, anything else is an invalid type.
DeserializeString(v) ==
    IF v.kind = "str" THEN Ok(v.v) ELSE invalid_type(v.kind, "a string")

\* price, at: u64. A non-negative integer, anything else is rejected.
DeserializeU64(v) ==
    IF v.kind # "num" THEN invalid_type(v.kind, "u64")
    ELSE IF v.v < 0 THEN invalid_type("negative integer", "u64")
    ELSE Ok(v.v)

\* Fault seeded for C7: the derived visitor without its duplicate check, the
\* last price or at winning.
RECURSIVE PricingAt_visit_map_LastWins(_, _, _, _)
PricingAt_visit_map_LastWins(m, i, price, at_) ==
    IF i > Len(m) THEN
        IF ~IsSome(price) THEN missing_field("price")
        ELSE IF ~IsSome(at_) THEN missing_field("at")
        ELSE Ok([price |-> Unwrap(price), at |-> Unwrap(at_)])
    ELSE IF m[i][1] = "price" THEN
        LET r == DeserializeU64(m[i][2]) IN
        IF IsErr(r) THEN r
        ELSE PricingAt_visit_map_LastWins(m, i + 1, Some(r.value), at_)
    ELSE IF m[i][1] = "at" THEN
        LET r == DeserializeU64(m[i][2]) IN
        IF IsErr(r) THEN r
        ELSE PricingAt_visit_map_LastWins(m, i + 1, price, Some(r.value))
    ELSE PricingAt_visit_map_LastWins(m, i + 1, price, at_)

\* #[derive(Deserialize)] struct PricingAt { price, at }: the derived
\* visit_map. The derive carries no deny_unknown_fields attribute, so a key
\* other than price and at resolves to the ignore variant and its value is
\* skipped whatever it is; a repeated price or at is duplicate_field; after the
\* loop an empty slot is missing_field, price checked before at.
RECURSIVE PricingAt_visit_map(_, _, _, _)
PricingAt_visit_map(m, i, price, at_) ==
    IF i > Len(m) THEN
        IF ~IsSome(price) THEN missing_field("price")
        ELSE IF ~IsSome(at_) THEN missing_field("at")
        ELSE Ok([price |-> Unwrap(price), at |-> Unwrap(at_)])
    ELSE IF m[i][1] = "price" THEN
        IF IsSome(price) THEN duplicate_field("price")
        ELSE LET r == DeserializeU64(m[i][2]) IN
             IF IsErr(r) THEN r
             ELSE PricingAt_visit_map(m, i + 1, Some(r.value), at_)
    ELSE IF m[i][1] = "at" THEN
        IF IsSome(at_) THEN duplicate_field("at")
        ELSE LET r == DeserializeU64(m[i][2]) IN
             IF IsErr(r) THEN r
             ELSE PricingAt_visit_map(m, i + 1, price, Some(r.value))
    ELSE PricingAt_visit_map(m, i + 1, price, at_)

\* The derived visit_seq: a struct also decodes from the positional form
\* [price, at]; too few elements is an invalid length, and the format rejects
\* elements left over after the visitor returns.
PricingAt_visit_seq(s) ==
    IF Len(s) < 1 THEN invalid_type("a sequence of 0 elements", "struct PricingAt with 2 elements")
    ELSE LET p == DeserializeU64(s[1]) IN
         IF IsErr(p) THEN p
         ELSE IF Len(s) < 2 THEN invalid_type("a sequence of 1 element", "struct PricingAt with 2 elements")
         ELSE LET a == DeserializeU64(s[2]) IN
              IF IsErr(a) THEN a
              ELSE IF Len(s) > 2 THEN invalid_type("trailing elements", "struct PricingAt with 2 elements")
              ELSE Ok([price |-> p.value, at |-> a.value])

\* PricingAt::deserialize: deserialize_struct dispatches on the value's kind.
DeserializePricingAt(v) ==
    IF v.kind = "map" THEN PricingAt_visit_map(v.v, 1, None, None)
    ELSE IF v.kind = "seq" THEN PricingAt_visit_seq(v.v)
    ELSE invalid_type(v.kind, "struct PricingAt")

\* Fault seeded for C4: each decoded element is put in front of the ones
\* decoded before it.
RECURSIVE Vec_visit_seq_Prepend(_, _, _)
Vec_visit_seq_Prepend(s, i, acc) ==
    IF i > Len(s) THEN Ok(acc)
    ELSE LET r == DeserializePricingAt(s[i]) IN
         IF IsErr(r) THEN r
         ELSE Vec_visit_seq_Prepend(s, i + 1, <<r.value>> \o acc)

\* pricing: Vec<PricingAt>. Elements are decoded in input order and pushed; the
\* first failing element ends the decode with its error.
RECURSIVE Vec_visit_seq(_, _, _)
Vec_visit_seq(s, i, acc) ==
    IF i > Len(s) THEN Ok(acc)
    ELSE LET r == DeserializePricingAt(s[i]) IN
         IF IsErr(r) THEN r
         ELSE Vec_visit_seq(s, i + 1, Append(acc, r.value))

\* Fault seeded for C5: a single map is decoded as one PricingAt and wrapped
\* into a one-element sequence (the conversion the TODO of visit_map sketches).
DeserializeVec_WrapMap(v) ==
    IF v.kind = "seq" THEN Vec_visit_seq(v.v, 1, <<>>)
    ELSE IF v.kind = "map" THEN
        LET r == DeserializePricingAt(v) IN
        IF IsErr(r) THEN r ELSE Ok(<<r.value>>)
    ELSE invalid_type(v.kind, "a sequence")

\* Vec::deserialize: only a sequence is accepted.
DeserializeVec(v) ==
    IF v.kind = "seq" THEN Vec_visit_seq(v.v, 1, <<>>)
    ELSE invalid_type(v.kind, "a sequence")

-----------------------------------------------------------------------------
\* Input documents.

\* Key/value pairs of the general family: valid values (two of them for name
\* and for pricing) and an ill-shaped one per recognized key, and a key that
\* differs from a recognized one only in case.
GoodElem == MapV(<<<<"price", Num(100)>>, <<"at", Num(0)>>>>)
BareMap == MapV(<<<<"price", Num(1000)>>>>)
GeneralPairs ==
    { <<"name", Str("foo")>>, <<"name", Str("bar")>>, <<"name", Num(1)>>,
      <<"at", Num(0)>>, <<"at", Str("foo")>>,
      <<"pricing", SeqV(<<>>)>>, <<"pricing", SeqV(<<GoodElem>>)>>,
      <<"pricing", BareMap>>,
      <<"Name", Str("foo")>> }
GeneralDocs == UNION { [1..n -> GeneralPairs] : n \in 0..MaxPairs }

\* #[derive(Serialize)] for PricingAt writes a map with the fields in
\* declaration order, price then at; a Vec is written as a sequence of its
\* elements in order.
SerializePricingAt(p) == MapV(<<<<"price", Num(p.price)>>, <<"at", Num(p.at)>>>>)
SerializeVec(ps) == SeqV([i \in 1..Len(ps) |-> SerializePricingAt(ps[i])])

\* Round-trip family: every sequence of up to MaxElems (price, at) entries with
\* numbers in 0..MaxNum, written as the pricing array of a document that holds
\* the three keys in any order.
Nums == 0..MaxNum
PricingAts == [price : Nums, at : Nums]
PricingSeqs == UNION { [1..n -> PricingAts] : n \in 0..MaxElems }
KeyOrders == { p \in [1..3 -> 1..3] : \A i, j \in 1..3 : p[i] = p[j] => i = j }
Document(order, n, pv, a) ==
    LET pairs == <<<<"name", n>>, <<"pricing", pv>>, <<"at", a>>>>
    IN [i \in 1..3 |-> pairs[order[i]]]

\* Element family: the pricing value is built from one arbitrary element, alone
\* or next to a well-formed one. An element is a map of up to MaxElemPairs pairs
\* (price, at and a foreign key, with good and bad values), a positional
\* sequence or a scalar. The same maps are also given bare as the pricing value.
ElemPairs ==
    { <<"price", Num(0)>>, <<"price", Num(1)>>, <<"price", Str("s")>>,
      <<"at", Num(0)>>, <<"at", Num(1)>>, <<"at", Num(-1)>>,
      <<"x", Num(0)>>, <<"x", Str("s")>> }
ElemMaps == { MapV(m) : m \in UNION { [1..n -> ElemPairs] : n \in 0..MaxElemPairs } }
ElemOthers ==
    { SeqV(<<>>), SeqV(<<Num(1)>>), SeqV(<<Num(1), Num(0)>>),
      SeqV(<<Num(1), Str("s")>>), SeqV(<<Num(1), Num(0), Num(0)>>), Num(1) }
Elems == ElemMaps \cup ElemOthers
ElemPricings ==
    { SeqV(<<e>>) : e \in Elems } \cup { SeqV(<<GoodElem, e>>) : e \in Elems }
        \cup { SeqV(<<e, GoodElem>>) : e \in Elems } \cup ElemMaps
ElementDocs ==
    { <<<<"name", Str("foo")>>, <<"pricing", pv>>, <<"at", Num(999)>>>> : pv \in ElemPricings }
        \cup { <<<<"pricing", pv>>, <<"name", Str("foo")>>>> : pv \in ElemPricings }

\* origin is history: the pricing sequence a round-trip document was written
\* from, None for the other families.
Init ==
    /\ \/ doc \in GeneralDocs \cup ElementDocs /\ origin = None
       \/ \E ps \in PricingSeqs, order \in KeyOrders, a \in Nums :
            /\ doc = Document(order, Str("bar"), SerializeVec(ps), Num(a))
            /\ origin = Some(ps)
    /\ pos = 1
    /\ name = None
    /\ pricing = None
    /\ at = None
    /\ writes = [f \in {"name", "pricing", "at"} |-> 0]
    /\ pc = "loop"
    /\ result = [tag |-> "None"]

-----------------------------------------------------------------------------
\* BuiltinVisitor::visit_map.

\* Fault seeded for C9: the error is recorded but the loop goes on with the
\* next pair.
Fail_Continue(e) ==
    /\ result' = e
    /\ pos' = pos + 1
    /\ UNCHANGED <<doc, origin, name, pricing, at, writes, pc>>

\* `return Err(e)` and the `?` operator: the traversal ends with the error.
Fail(e) ==
    /\ result' = e
    /\ pc' = "done"
    /\ UNCHANGED <<doc, origin, pos, name, pricing, at, writes>>

\* map.next_key() yields a pair whose key resolves to field f.
NextKeyIs(f) ==
    /\ pc = "loop"
    /\ pos <= Len(doc)
    /\ visit_str(doc[pos][1]) = Ok(f)

\* Fault seeded for C1: the Name arm without `if name.is_some()`, a later name
\* replacing the earlier one.
VisitName_NoDupCheck ==
    /\ NextKeyIs("Name")
    /\ LET r == DeserializeString(doc[pos][2]) IN
       IF IsErr(r) THEN Fail(r)
       ELSE /\ name' = Some(r.value)
            /\ writes' = [writes EXCEPT !["name"] = @ + 1]
            /\ pos' = pos + 1
            /\ UNCHANGED <<doc, origin, pricing, at, pc, result>>

\* Field::Name arm.
VisitName ==
    /\ NextKeyIs("Name")
    /\ IF IsSome(name) THEN Fail(duplicate_field("name"))
       ELSE LET r == DeserializeString(doc[pos][2]) IN
            IF IsErr(r) THEN Fail(r)
            ELSE /\ name' = Some(r.value)
                 /\ writes' = [writes EXCEPT !["name"] = @ + 1]
                 /\ pos' = pos + 1
                 /\ UNCHANGED <<doc, origin, pricing, at, pc, result>>

\* Fault seeded for C10: the Pricing arm decoding the value before it tests
\* the slot.
VisitPricing_DecodeFirst ==
    /\ NextKeyIs("Pricing")
    /\ LET r == DeserializeVec(doc[pos][2]) IN
       IF IsErr(r) THEN Fail(r)
       ELSE IF IsSome(pricing) THEN Fail(duplicate_field("pricing"))
       ELSE /\ pricing' = Some(r.value)
            /\ writes' = [writes EXCEPT !["pricing"] = @ + 1]
            /\ pos' = pos + 1
            /\ UNCHANGED <<doc, origin, name, at, pc, result>>

\* Fault seeded for C8: `pricing = map.next_value().ok()`, a value that does
\* not decode leaving the slot empty and the traversal running.
VisitPricing_OkOrNone ==
    /\ NextKeyIs("Pricing")
    /\ IF IsSome(pricing) THEN Fail(duplicate_field("pricing"))
       ELSE LET r == DeserializeVec(doc[pos][2]) IN
            /\ pricing' = IF IsErr(r) THEN None ELSE Some(r.value)
            /\ writes' = [writes EXCEPT !["pricing"] = @ + (IF IsErr(r) THEN 0 ELSE 1)]
            /\ pos' = pos + 1
            /\ UNCHANGED <<doc, origin, name, at, pc, result>>

\* Field::Pricing arm.
VisitPricing ==
    /\ NextKeyIs("Pricing")
    /\ IF IsSome(pricing) THEN Fail(duplicate_field("pricing"))
       ELSE LET r == DeserializeVec(doc[pos][2]) IN
            IF IsErr(r) THEN Fail(r)
            ELSE /\ pricing' = Some(r.value)
                 /\ writes' = [writes EXCEPT !["pricing"] = @ + 1]
                 /\ pos' = pos + 1
                 /\ UNCHANGED <<doc, origin, name, at, pc, result>>

\* Field::At arm.
VisitAt ==
    /\ NextKeyIs("At")
    /\ IF IsSome(at) THEN Fail(duplicate_field("at"))
       ELSE LET r == DeserializeU64(doc[pos][2]) IN
            IF IsErr(r) THEN Fail(r)
            ELSE /\ at' = Some(r.value)
                 /\ writes' = [writes EXCEPT !["at"] = @ + 1]
                 /\ pos' = pos + 1
                 /\ UNCHANGED <<doc, origin, name, pricing, pc, result>>

\* Fault seeded for C3: a key that is none of FIELDS is skipped with its value.
VisitUnknown_Skip ==
    /\ pc = "loop"
    /\ pos <= Len(doc)
    /\ IsErr(visit_str(doc[pos][1]))
    /\ pos' = pos + 1
    /\ UNCHANGED <<doc, origin, name, pricing, at, writes, pc, result>>

\* map.next_key()? fails: the key is none of FIELDS.
VisitUnknown ==
    /\ pc = "loop"
    /\ pos <= Len(doc)
    /\ IsErr(visit_str(doc[pos][1]))
    /\ Fail(visit_str(doc[pos][1]))

\* Fault seeded for C2: an absent pricing defaults to the empty sequence.
Finish_result_DefaultPricing(n, p, a) ==
    IF ~IsSome(n) THEN missing_field("name")
    ELSE IF ~IsSome(a) THEN missing_field("at")
    ELSE Ok([name |-> Unwrap(n),
             pricing |-> IF IsSome(p) THEN Unwrap(p) ELSE <<>>,
             at |-> Unwrap(a)])

\* Fault seeded for C6: the record's at is taken from the last pricing entry
\* when there is one.
Finish_result_AtFromEntry(n, p, a) ==
    IF ~IsSome(n) THEN missing_field("name")
    ELSE IF ~IsSome(p) THEN missing_field("pricing")
    ELSE IF ~IsSome(a) THEN missing_field("at")
    ELSE Ok([name |-> Unwrap(n), pricing |-> Unwrap(p),
             at |-> IF Unwrap(p) = <<>> THEN Unwrap(a)
                    ELSE Unwrap(p)[Len(Unwrap(p))].at])

\* The value visit_map returns once next_key() has yielded None: the slots are
\* unwrapped in the order name, pricing, at, the first empty one is
\* missing_field, and otherwise the Builtin is built from the three slots.
Finish_result(n, p, a) ==
    IF ~IsSome(n) THEN missing_field("name")
    ELSE IF ~IsSome(p) THEN missing_field("pricing")
    ELSE IF ~IsSome(a) THEN missing_field("at")
    ELSE Ok([name |-> Unwrap(n), pricing |-> Unwrap(p), at |-> Unwrap(a)])

\* The loop exit and the tail of visit_map.
Finish ==
    /\ pc = "loop"
    /\ pos > Len(doc)
    /\ result' = Finish_result(name, pricing, at)
    /\ pc' = "done"
    /\ UNCHANGED <<doc, origin, pos, name, pricing, at, writes>>

Next ==
    \/ VisitName
    \/ VisitPricing
    \/ VisitAt
    \/ VisitUnknown
    \/ Finish

Spec == Init /\ [][Next]_vars

-----------------------------------------------------------------------------
\* Vocabulary of the properties.

Done == pc = "done"
Recognized(k) == k \in {"name", "pricing", "at"}
KeyAt(i) == doc[i][1]
ValueAt(i) == doc[i][2]
Positions == 1..Len(doc)
Occurrences(k) == { i \in Positions : KeyAt(i) = k }
Absent(k) == Occurrences(k) = {}

\* The decode of a pair's value by the type of its key's slot.
DecodeValue(k, v) ==
    IF k = "name" THEN DeserializeString(v)
    ELSE IF k = "pricing" THEN DeserializeVec(v)
    ELSE DeserializeU64(v)

\* Pair i repeats a recognized key of an earlier pair.
IsRepeat(i) == Recognized(KeyAt(i)) /\ \E j \in 1..(i - 1) : KeyAt(j) = KeyAt(i)
\* Pair i has a recognized key and a value that does not decode.
IllShaped(i) == Recognized(KeyAt(i)) /\ IsErr(DecodeValue(KeyAt(i), ValueAt(i)))
\* Pair i is an unknown key, a repeated key or an ill-shaped value.
Offends(i) == ~Recognized(KeyAt(i)) \/ IsRepeat(i) \/ IllShaped(i)
Offenders == { i \in Positions : Offends(i) }
Min(S) == CHOOSE x \in S : \A y \in S : x <= y
Repeats == { i \in Positions : IsRepeat(i) }

\* Every key of the document is recognized, occurs once and has a value that
\* decodes.
Clean == Offenders = {}

-----------------------------------------------------------------------------
\* C1: when a recognized top-level key occurs a second time and no pair before
\* that second occurrence has an unknown key or an ill-shaped value, the decode
\* fails with DuplicateField naming that key, whether or not the two values are
\* equal. (The second occurrence meant is the earliest one of the document.)
C1_DuplicateRejected ==
    (Done /\ Repeats # {}) =>
        LET j == Min(Repeats) IN
        (\A i \in 1..(j - 1) : Recognized(KeyAt(i)) /\ ~IllShaped(i))
            => result = duplicate_field(KeyAt(j))

\* A name given twice with the same value is rejected as a duplicate.
C1_Witness ==
    /\ Done
    /\ Len(doc) = 2
    /\ doc[1] = <<"name", Str("foo")>>
    /\ doc[2] = <<"name", Str("foo")>>
    /\ result = duplicate_field("name")

\* C2: a document whose pairs are all recognized, unique and well-shaped and
\* that omits exactly one of name, pricing, at fails with MissingField naming
\* the omitted field; nothing is substituted for it.
C2_MissingRejected ==
    \A k \in {"name", "pricing", "at"} :
        (Done /\ Clean /\ Absent(k) /\ Len(doc) = 2) => result = missing_field(k)

\* A document without pricing is not decoded with an empty pricing.
C2_Witness ==
    /\ Done
    /\ Clean
    /\ Len(doc) = 2
    /\ Absent("pricing")
    /\ result = missing_field("pricing")

\* C3: a document that holds name, pricing and at once each, well-shaped, and
\* one more pair whose key is none of the three, at any position, fails with
\* UnknownField carrying that key and the accepted list.
C3_UnknownRejected ==
    \A j \in Positions :
        ( /\ Done
          /\ ~Recognized(KeyAt(j))
          /\ Len(doc) = 4
          /\ Offenders = {j} )
            => result = unknown_field(KeyAt(j), <<"name", "pricing", "at">>)

\* The extra key differs from a recognized one only in case and comes last.
C3_Witness ==
    /\ Done
    /\ Len(doc) = 4
    /\ Offenders = {4}
    /\ KeyAt(4) = "Name"
    /\ result.tag = "Err"
    /\ result.kind = "UnknownField"

\* C4: a document whose pricing array is written from a sequence of
\* (price, at) entries decodes to a Builtin whose pricing is that sequence:
\* same length, same entries at the same positions.
C4_RoundTrip ==
    (Done /\ IsSome(origin)) =>
        /\ IsOk(result)
        /\ Len(result.value.pricing) = Len(Unwrap(origin))
        /\ \A i \in 1..Len(Unwrap(origin)) :
              result.value.pricing[i] = Unwrap(origin)[i]

\* A sequence of two different entries in descending order of price comes back
\* unchanged.
C4_Witness ==
    /\ Done
    /\ IsSome(origin)
    /\ Len(Unwrap(origin)) = 2
    /\ Unwrap(origin)[1] = [price |-> 1, at |-> 1]
    /\ Unwrap(origin)[2] = [price |-> 0, at |-> 1]
    /\ IsOk(result)

-----------------------------------------------------------------------------
\* The error the claims assign to an offending pair: unknown key first, then
\* repetition, then the value's own decode error.
ErrorOf(i) ==
    IF ~Recognized(KeyAt(i)) THEN unknown_field(KeyAt(i), <<"name", "pricing", "at">>)
    ELSE IF IsRepeat(i) THEN duplicate_field(KeyAt(i))
    ELSE DecodeValue(KeyAt(i), ValueAt(i))

\* Pair i is reached by the traversal: nothing before it offends.
Reached(i) == \A j \in 1..(i - 1) : ~Offends(j)

BareMapPositions == { i \in Occurrences("pricing") : ValueAt(i).kind = "map" }
SequenceExpected == invalid_type("map", "a sequence")

-----------------------------------------------------------------------------
\* Well-formedness as the claims word it, stated on the document alone.

IsU64(v) == v.kind = "num" /\ v.v >= 0
\* A well-formed {price, at} map: the two keys once each, in either order.
WellFormedElem(e) ==
    /\ e.kind = "map"
    /\ Len(e.v) = 2
    /\ {e.v[1][1], e.v[2][1]} = {"price", "at"}
    /\ IsU64(e.v[1][2])
    /\ IsU64(e.v[2][2])
ElemField(e, k) == e.v[CHOOSE i \in 1..Len(e.v) : e.v[i][1] = k][2].v
EntryOf(e) == [price |-> ElemField(e, "price"), at |-> ElemField(e, "at")]
Field(k) == ValueAt(CHOOSE i \in Positions : KeyAt(i) = k)

\* name, pricing and at once each, in any order, and nothing else.
ThreeKeys ==
    /\ Len(doc) = 3
    /\ \A k \in {"name", "pricing", "at"} : Cardinality(Occurrences(k)) = 1
ValidDocument ==
    /\ ThreeKeys
    /\ Field("name").kind = "str"
    /\ IsU64(Field("at"))
    /\ Field("pricing").kind = "seq"
    /\ \A i \in 1..Len(Field("pricing").v) : WellFormedElem(Field("pricing").v[i])

\* C6: a document with name, pricing and at once each, in any order, a text
\* name, an unsigned at and a pricing sequence of well-formed {price, at} maps
\* decodes to the Builtin holding exactly these values; the record's at is the
\* top-level at, whatever the entries' at.
C6_ValidDecodes ==
    (Done /\ ValidDocument) =>
        result = Ok([name |-> Field("name").v,
                     pricing |-> [i \in 1..Len(Field("pricing").v) |->
                                    EntryOf(Field("pricing").v[i])],
                     at |-> Field("at").v])

\* Two entries, the second written at-first, and a record at that differs from
\* both entries' at.
C6_Witness ==
    /\ Done
    /\ ValidDocument
    /\ IsOk(result)
    /\ Len(result.value.pricing) = 2
    /\ result.value.pricing[2] = [price |-> 0, at |-> 1]
    /\ Field("pricing").v[2].v[1][1] = "at"
    /\ result.value.at = 999

-----------------------------------------------------------------------------
\* Elements of the pricing sequence, described on the document alone.

EKeys(e) == { e.v[i][1] : i \in 1..Len(e.v) }
\* Positions of an element map that repeat an earlier price or at key.
ERepeats(e) ==
    { i \in 1..Len(e.v) :
        /\ e.v[i][1] \in {"price", "at"}
        /\ \E j \in 1..(i - 1) : e.v[j][1] = e.v[i][1] }
\* Positions of an element map whose price or at value is not an unsigned
\* integer.
EIll(e) == { i \in 1..Len(e.v) : e.v[i][1] \in {"price", "at"} /\ ~IsU64(e.v[i][2]) }
HasForeignKey(e) == EKeys(e) \ {"price", "at"} # {}

\* The document is name, pricing, at once each with a text name and an
\* unsigned at, its pricing is a sequence, and element k of it is a map that
\* follows well-formed elements only.
FirstSuspect(k) ==
    /\ ThreeKeys
    /\ Field("name").kind = "str"
    /\ IsU64(Field("at"))
    /\ Field("pricing").kind = "seq"
    /\ k \in 1..Len(Field("pricing").v)
    /\ Field("pricing").v[k].kind = "map"
    /\ \A i \in 1..(k - 1) : WellFormedElem(Field("pricing").v[i])
Elem(k) == Field("pricing").v[k]
PricingLen ==
    IF ThreeKeys /\ Field("pricing").kind = "seq" THEN Len(Field("pricing").v) ELSE 0

\* An element map whose first repetition of price or at comes before any
\* ill-shaped price or at value fails the decode with DuplicateField.
ElemDuplicateRule(k) ==
    (ERepeats(Elem(k)) # {} /\ \A i \in EIll(Elem(k)) : i > Min(ERepeats(Elem(k))))
        => result = duplicate_field(Elem(k).v[Min(ERepeats(Elem(k)))][1])

\* An element map without repetition or ill-shaped value that lacks price or
\* at fails the decode with MissingField, price being looked for first.
ElemMissingRule(k) ==
    (ERepeats(Elem(k)) = {} /\ EIll(Elem(k)) = {}) =>
        /\ "price" \notin EKeys(Elem(k)) => result = missing_field("price")
        /\ ("price" \in EKeys(Elem(k)) /\ "at" \notin EKeys(Elem(k)))
              => result = missing_field("at")

\* An element map with price and at once each, well-shaped, next to a key
\* that is neither.
ForeignOnly(e) ==
    /\ HasForeignKey(e)
    /\ ERepeats(e) = {}
    /\ EIll(e) = {}
    /\ {"price", "at"} \subseteq EKeys(e)

\* C7 as stated: an element is held to the discipline of the outer object,
\* so a repeated price or at is DuplicateField, a lacking one MissingField and
\* any other key UnknownField, and the whole decode fails.
C7_Original ==
    \A k \in 1..PricingLen :
        (Done /\ FirstSuspect(k)) =>
            /\ ElemDuplicateRule(k)
            /\ ElemMissingRule(k)
            /\ ForeignOnly(Elem(k)) =>
                  (IsErr(result) /\ result.kind = "UnknownField")

\* C7 as amended: a repeated price or at is DuplicateField and a lacking one
\* MissingField, and either fails the whole decode; a key other than price and
\* at is skipped with its value and is never an UnknownField, so an element
\* with one well-shaped price and at decodes to that entry whatever other keys
\* it holds.
C7_ElementDiscipline ==
    \A k \in 1..PricingLen :
        (Done /\ FirstSuspect(k)) =>
            /\ ElemDuplicateRule(k)
            /\ ElemMissingRule(k)
            /\ ~(IsErr(result) /\ result.kind = "UnknownField")
            /\ ( /\ ForeignOnly(Elem(k))
                 /\ \A i \in (k + 1)..Len(Field("pricing").v) :
                       WellFormedElem(Field("pricing").v[i]) )
                  => /\ IsOk(result)
                     /\ result.value.pricing[k] = EntryOf(Elem(k))
                     /\ Len(result.value.pricing) = Len(Field("pricing").v)

\* A second element {price, x, price} after a well-formed one: the decode
\* fails on the repeated price although a foreign key precedes it.
C7_Witness ==
    /\ Done
    /\ FirstSuspect(2)
    /\ Len(Elem(2).v) = 3
    /\ Elem(2).v[1][1] = "price"
    /\ Elem(2).v[2][1] = "x"
    /\ Elem(2).v[3][1] = "price"
    /\ result = duplicate_field("price")

-----------------------------------------------------------------------------
\* A pricing value with an element map that has neither a repeated nor an
\* ill-shaped price or at and lacks one of the two.
ElementLacksField(v) ==
    /\ v.kind = "seq"
    /\ \E i \in 1..Len(v.v) :
          /\ v.v[i].kind = "map"
          /\ {"price", "at"} \ EKeys(v.v[i]) # {}

\* C8 as stated: MissingField is produced only once every pair has been
\* consumed without error; a document that lacks a required field and holds an
\* offending pair fails with the UnknownField, DuplicateField or ShapeMismatch
\* of the earliest offending pair.
C8_Original ==
    Done =>
        /\ (IsErr(result) /\ result.kind = "MissingField")
              => (pos > Len(doc) /\ Offenders = {})
        /\ ((\E k \in {"name", "pricing", "at"} : Absent(k)) /\ Offenders # {})
              => /\ result = ErrorOf(Min(Offenders))
                 /\ result.kind \in {"UnknownField", "DuplicateField", "ShapeMismatch"}

\* C8 as amended: the failure is the one of the earliest offending pair, at
\* which the traversal stops; the MissingField of an absent top-level field is
\* produced only once every pair has been consumed without error. An earlier
\* MissingField is the error of a pricing value, one of whose elements lacks
\* price or at.
C8_FirstFailure ==
    Done =>
        IF Offenders = {}
        THEN /\ pos = Len(doc) + 1
             /\ IsErr(result) =>
                   /\ result.kind = "MissingField"
                   /\ Absent(result.field)
        ELSE /\ pos = Min(Offenders)
             /\ result = ErrorOf(pos)
             /\ result.kind = "MissingField" =>
                   /\ KeyAt(pos) = "pricing"
                   /\ ElementLacksField(ValueAt(pos))
                   /\ result.field \in {"price", "at"}

\* A document without at whose third pair is an unknown key: the answer is the
\* unknown key, not the missing at.
C8_Witness ==
    /\ Done
    /\ Len(doc) = 4
    /\ Absent("at")
    /\ Offenders = {3, 4}
    /\ ~Recognized(KeyAt(3))
    /\ IsRepeat(4)
    /\ result = unknown_field(KeyAt(3), <<"name", "pricing", "at">>)

-----------------------------------------------------------------------------
Populated == IsSome(name) /\ IsSome(pricing) /\ IsSome(at)
Terminal == result.tag # "None"

\* C9: a Builtin is returned only with the three slots populated, each written
\* exactly once, and is made of the slots' values; no slot is ever written
\* twice; nothing is returned while the traversal runs; and once a result
\* exists, no pair is consumed and nothing changes any more.
C9_AllOrNothing ==
    /\ [](IsOk(result) =>
            /\ Populated
            /\ \A f \in {"name", "pricing", "at"} : writes[f] = 1
            /\ result.value = [name |-> Unwrap(name), pricing |-> Unwrap(pricing),
                               at |-> Unwrap(at)])
    /\ [](\A f \in {"name", "pricing", "at"} : writes[f] <= 1)
    /\ [](Terminal <=> Done)
    /\ [][Terminal => UNCHANGED vars]_vars

\* A traversal that failed on its third pair with two slots populated and no
\* Builtin.
C9_Witness ==
    /\ Done
    /\ IsErr(result)
    /\ pos = 3
    /\ Len(doc) = 4
    /\ IsSome(name)
    /\ IsSome(pricing)
    /\ ~IsSome(at)

-----------------------------------------------------------------------------
\* C10: a recognized key that occurs a second time with an ill-shaped value,
\* no pair before it offending, fails with DuplicateField for that key, not
\* with the value's ShapeMismatch, and the slot still holds the value of the
\* first occurrence.
SlotOf(k) == IF k = "name" THEN name ELSE IF k = "pricing" THEN pricing ELSE at
C10_DuplicateBeforeDecode ==
    \A j \in Positions :
        ( /\ Done
          /\ IsRepeat(j)
          /\ Reached(j)
          /\ IsErr(DecodeValue(KeyAt(j), ValueAt(j))) )
            => /\ result = duplicate_field(KeyAt(j))
               /\ SlotOf(KeyAt(j)) =
                     Some(DecodeValue(KeyAt(j), ValueAt(Min(Occurrences(KeyAt(j))))).value)

\* A second pricing whose value is a bare map, after a pricing of one entry.
C10_Witness ==
    /\ Done
    /\ Len(doc) = 2
    /\ doc[1] = <<"pricing", SeqV(<<GoodElem>>)>>
    /\ doc[2] = <<"pricing", BareMap>>
    /\ result = duplicate_field("pricing")
    /\ pricing = Some(<<[price |-> 100, at |-> 0]>>)

====
